---- MODULE Spec2Model ----
(***************************************************************************)
(* Model of kusanagi's Monte-Carlo PILCO core:                             *)
(*   kusanagi/ghost/algorithms/mc_pilco.py  (get_loss, rollout,            *)
(*                                           propagate_particles)          *)
(*   ghost/cost.py                          (quadratic_loss,               *)
(*                                           quadratic_saturating_loss)    *)
(*                                                                         *)
(* Real numbers are exact rationals <<num, den>> (den > 0, lowest terms).  *)
(* The rollout is modelled with state dimension D = 1 and two particles:   *)
(* there the empirical variance (a-b)^2/4 always has a rational square     *)
(* root, so the Cholesky factor of every step is computed exactly.         *)
(* The cost functions of cost.py are modelled on 2x2 integer matrices.     *)
(*                                                                         *)
(* and of the parts of its shell the learner relies on:                    *)
(*   kusanagi/base/Loadable.py   (registration, load, save)                *)
(*   kusanagi/shell/plant.py     (Plant.get_state, ODEPlant._step,         *)
(*                                PlantDraw's thread and process)          *)
(***************************************************************************)
(* Specifications: Spec, SpecCrn (rollout), SpecCost (cost.py),            *)
(* SpecLoadable, SpecSave (Loadable), SpecPlant, SpecDraw (plant.py).      *)
(***************************************************************************)
EXTENDS Integers, Sequences, FiniteSets, TLC

(* ------------------------------------------------------------------ *)
(* Bounds                                                             *)
(* ------------------------------------------------------------------ *)

\* rows of the common-random-number buffer (stands for the 100 of line 150)
Capacity == 2
\* largest horizon H of an evaluation in the rollout specification
MaxH == 3
\* largest horizon H of an evaluation in the buffer specification
MaxHCrn == 4
\* particle indices: n_samples = 2
Particles == {1, 2}
NSamples == Cardinality(Particles)

(* ------------------------------------------------------------------ *)
(* Exact rational arithmetic                                          *)
(* ------------------------------------------------------------------ *)

Abs(k) == IF k < 0 THEN -k ELSE k

RECURSIVE GCD(_, _)
GCD(a, b) == IF b = 0 THEN a ELSE GCD(b, a % b)

Norm(n, d) ==
    LET g == GCD(Abs(n), d)
    IN  IF n = 0 THEN <<0, 1>> ELSE <<n \div g, d \div g>>

R(k) == <<k, 1>>
RAdd(a, b) == Norm(a[1] * b[2] + b[1] * a[2], a[2] * b[2])
RSub(a, b) == Norm(a[1] * b[2] - b[1] * a[2], a[2] * b[2])
RMul(a, b) == Norm(a[1] * b[1], a[2] * b[2])
RDivN(a, k) == Norm(a[1], a[2] * k)
RPos(a) == a[1] > 0

RECURSIVE RPow(_, _)
RPow(a, k) == IF k = 0 THEN R(1) ELSE RMul(a, RPow(a, k - 1))

\* exact integer square root (the argument is a perfect square)
ISqrt(k) == CHOOSE r \in 0..k : r * r = k
RSqrt(a) == <<ISqrt(a[1]), ISqrt(a[2])>>

RECURSIVE RSum(_)
RSum(s) == IF s = <<>> THEN R(0) ELSE RAdd(Head(s), RSum(Tail(s)))

(* ------------------------------------------------------------------ *)
(* Input domains                                                      *)
(* ------------------------------------------------------------------ *)

\* a noise slice z_t has one standard-normal draw per particle
NoiseSlices == { <<R(1), R(-1)>>, <<R(1), R(1)>>, <<R(2), R(0)>> }
CrnSlices == { <<R(1), R(-1)>>, <<R(1), R(1)>> }
MeanVals == { R(0), R(1) }
CovVals == { R(0), R(1), R(4) }
GammaVals == { <<1, 2>>, R(1) }
PolKinds == { "identity" }
DynKinds == { "zero", "control" }

(* ------------------------------------------------------------------ *)
(* State                                                              *)
(* ------------------------------------------------------------------ *)

VARIABLES
    graphs,        \* graphs built by get_loss, in build order
    cur,           \* index of the graph being (or last) evaluated, 0 if none
    status,        \* "idle" | "scan" | "done" | "LinAlgError"
    mx0, Sx0, H, gamma0,   \* inputs of the evaluation
    z,             \* the noise sequence handed to rollout (H slices)
    x0,            \* initial particles
    x,             \* particle ensemble carried by the scan
    gamma,         \* discount carried by the scan
    t,             \* scan steps done
    mcosts, costs, trajectories,   \* scan outputs, one entry per step
    raw_mc, raw_c, \* undiscounted mc_next / c_next of each step
    mx_next, Sx_next,      \* moments computed by the last step
    loss,          \* the scalar objective of the last completed evaluation
    mark,          \* an earlier evaluation, remembered for comparison
    fn,            \* the cost function applied, "none" before
    mx, Sx, params,        \* its arguments: mean, covariance, {Q, target}
    result,        \* what the call produced
    obj_dict,      \* Loadable: self.__dict__ without the bookkeeping fields
    registered_keys, registered_types,   \* Loadable: the registered sets
    filename,      \* Loadable: self.filename
    state_changed, \* Loadable: self.state_changed
    disk,          \* files written so far: path -> saved state
    lop,           \* the last Loadable call: arguments and outcome
    noise_dist, angle_dims,   \* Plant: measurement noise, angle dimensions
    plant_state,   \* Plant: the array self.state, None before set_state
    plant_u,       \* Plant: self.u, the control applied last
    plant_t,       \* Plant: self.t
    solver_t, solver_y,       \* ODEPlant: time and array of self.solver
    solver_ok,     \* ODEPlant: what self.solver.successful() would return
    aliased,       \* ODEPlant: self.state and the solver share one array
    t1,            \* ODEPlant._step: time the loop runs up to
    pc,            \* ODEPlant._step: "idle" | "test" | "body"
    pop,           \* the last Plant call and what it returned
    running,       \* PlantDraw: the running event
    pipe,          \* PlantDraw: messages sent and not yet received
    poll_pc,       \* polling thread: "none" | "test" | "get" | "send" | "exit"
    draw_pc,       \* drawing process: "none" | "init" | "test" | "poll" |
                   \* "wait" | "exit"
    main_pc,       \* owner of the drawer: "new" | "started" | "stopped"
    poll_msg       \* polling thread: the (state, t) read last

loadVars == <<obj_dict, registered_keys, registered_types, filename,
              state_changed, disk, lop>>

plantVars == <<noise_dist, angle_dims, plant_state, plant_u, plant_t,
               solver_t, solver_y, solver_ok, aliased, t1, pc, pop>>

drawVars == <<running, pipe, poll_pc, draw_pc, main_pc, poll_msg>>

shellVars == <<loadVars, plantVars, drawVars>>

vars == <<graphs, cur, status, mx0, Sx0, H, gamma0, z, x0, x, gamma, t,
          mcosts, costs, trajectories, raw_mc, raw_c, mx_next, Sx_next,
          loss, mark, fn, mx, Sx, params, result,
          shellVars>>

costVars == <<fn, mx, Sx, params, result>>

callVars == <<cur, status, mx0, Sx0, H, gamma0, z, x0, x, gamma, t,
              mcosts, costs, trajectories, raw_mc, raw_c, mx_next, Sx_next,
              loss>>

None == <<>>

(* ------------------------------------------------------------------ *)
(* get_loss: the common-random-number buffer                          *)
(* ------------------------------------------------------------------ *)

\* variant: the quotient rounded down
CeilDiv_floor(a, b) == a \div b
\* tt.ceil(H/z.shape[0]).astype('int64'): true division, then ceiling
CeilDiv(a, b) == (a + b - 1) \div b

\* tt.tile(z, (k, 1, 1)): k copies of the buffer along the first axis
RECURSIVE Tile(_, _)
Tile(buf, k) == IF k <= 0 THEN <<>> ELSE buf \o Tile(buf, k - 1)

\* s[:n]
Take(s, n) == SubSeq(s, 1, IF n < Len(s) THEN n ELSE Len(s))

\* ifelse(z.shape[0] < H, tile(z, ceil(H/z.shape[0])), z)[:H]
crn_noise(zbuf, h) ==
    Take(IF Len(zbuf) < h THEN Tile(zbuf, CeilDiv(h, Len(zbuf))) ELSE zbuf, h)

\* variant: the buffer advances by the slices drawn, as a random stream does
shared_after_call_rotated(zbuf, h) ==
    [i \in 1..Len(zbuf) |-> zbuf[((i - 1 + h) % Len(zbuf)) + 1]]
\* the shared buffer after a call of the compiled function: the updates
\* handed to theano.function hold no update of z
shared_after_call(zbuf, h) == zbuf

(* ------------------------------------------------------------------ *)
(* Linear algebra on the 1x1 covariance                               *)
(* ------------------------------------------------------------------ *)

\* variant: a singular matrix is accepted
cholesky_semidef(S) == [ok |-> S[1] >= 0, L |-> IF S[1] >= 0 THEN RSqrt(S) ELSE R(0)]
\* variant: the matrix itself in place of its factor
cholesky_nosqrt(S) == [ok |-> RPos(S), L |-> S]
\* tt.slinalg.cholesky: fails unless the matrix is positive definite
cholesky(S) == [ok |-> RPos(S), L |-> IF RPos(S) THEN RSqrt(S) ELSE R(0)]

\* x.mean(0)
Mean(xs) == RDivN(RSum(xs), Len(xs))

\* x.T.dot(x)/n - outer(mx, mx)
Cov(xs) ==
    LET sq == [i \in 1..Len(xs) |-> RMul(xs[i], xs[i])]
    IN  RSub(RDivN(RSum(sq), Len(xs)), RMul(Mean(xs), Mean(xs)))

\* m + z.dot(L.T): one row per row of the noise slice
reproject(m, L, zt) == [i \in 1..Len(zt) |-> RAdd(m, RMul(zt[i], L))]

(* ------------------------------------------------------------------ *)
(* Collaborators: policy, dynamics model, cost                        *)
(* ------------------------------------------------------------------ *)

\* pol.evaluate(xa): one control per particle
PolEvaluate(pol, xa) ==
    [i \in 1..Len(xa) |-> IF pol = "identity" THEN xa[i] ELSE R(0)]

\* dyn.predict_symbolic(xu): one state change per particle
DynPredict(dyn, xa, u) ==
    [i \in 1..Len(xa) |-> IF dyn = "control" THEN u[i] ELSE R(0)]

\* cost(mx, Sx)[0]: expected quadratic cost (Q = 1, target = 0)
cost_mean(m, S) == RAdd(S, RMul(m, m))

\* cost(x, None): elementwise cost of the particles
cost_elem(xs) == [i \in 1..Len(xs) |-> RMul(xs[i], xs[i])]

(* ------------------------------------------------------------------ *)
(* propagate_particles and rollout                                    *)
(* ------------------------------------------------------------------ *)

\* variant: the predicted change alone, without the current state
propagate_particles_delta_only(xs, pol, dyn) ==
    DynPredict(dyn, xs, PolEvaluate(pol, xs))
\* x_next = x + delta_x, the controls and the change computed per particle
propagate_particles(xs, pol, dyn) ==
    LET xa == xs       \* angle_dims = None: gTrig leaves x as it is
        u == PolEvaluate(pol, xa)
        delta_x == DynPredict(dyn, xa, u)
    IN  [i \in 1..Len(xs) |-> RAdd(xs[i], delta_x[i])]

\* variant: only the first row of the noise slice is used
resample_particles_first(mxn, L, zt) == << RAdd(mxn, RMul(zt[1], L)) >>
\* x_next = mx_next + z.dot(cholesky(Sx_next).T): the resampled ensemble
resample_particles(mxn, L, zt) == reproject(mxn, L, zt)

\* variant: the first step is not discounted
scan_init_gamma_one(g0) == R(1)
\* outputs_info = [None, None, x0, gamma0]: the discount the scan starts with
scan_init_gamma(g0) == g0

\* variant: the costs are taken from the ensemble after the resampling
step_rollout_cost_after_resample(zt, xs, g, g0, cfg) ==
    LET x_prop == propagate_particles(xs, cfg.pol, cfg.dyn)
        mxn == Mean(x_prop)
        Sxn == Cov(x_prop)
        ch == IF cfg.resample THEN cholesky(Sxn) ELSE [ok |-> TRUE, L |-> R(0)]
        x_res == IF cfg.resample /\ ch.ok
                 THEN resample_particles(mxn, ch.L, zt) ELSE x_prop
        mc_next == cost_mean(Mean(x_res), Cov(x_res))
        c_next == cost_elem(x_res)
    IN  [ ok |-> ch.ok,
          mcost |-> RMul(g, mc_next),
          cost |-> [i \in 1..Len(c_next) |-> RMul(g, c_next[i])],
          x_next |-> x_res,
          gamma |-> RMul(g, g0),
          mx_next |-> mxn, Sx_next |-> Sxn,
          mc_next |-> mc_next, c_next |-> c_next ]
\* one scan step; ok is FALSE when the Cholesky of the resampling fails
step_rollout(zt, xs, g, g0, cfg) ==
    LET x_prop == propagate_particles(xs, cfg.pol, cfg.dyn)
        mxn == Mean(x_prop)
        Sxn == Cov(x_prop)
        mc_next == cost_mean(mxn, Sxn)
        c_next == cost_elem(x_prop)
        ch == IF cfg.resample THEN cholesky(Sxn) ELSE [ok |-> TRUE, L |-> R(0)]
    IN  [ ok |-> ch.ok,
          mcost |-> RMul(g, mc_next),
          cost |-> [i \in 1..Len(c_next) |-> RMul(g, c_next[i])],
          x_next |-> IF cfg.resample /\ ch.ok
                     THEN resample_particles(mxn, ch.L, zt) ELSE x_prop,
          gamma |-> RMul(g, g0),
          mx_next |-> mxn, Sx_next |-> Sxn,
          mc_next |-> mc_next, c_next |-> c_next ]

\* costs.T and trajectories.transpose(1, 0, 2): batch first, time second
Transpose(m) ==
    [i \in 1..Len(m[1]) |-> [k \in 1..Len(m) |-> m[k][i]]]

(* ------------------------------------------------------------------ *)
(* Actions                                                            *)
(* ------------------------------------------------------------------ *)

\* the absent value of a string-valued argument or field
PyNone == "None"

\* Loadable.__init__(name, filename): nothing registered, state_changed set
InitLoadable ==
    /\ obj_dict = <<>>
    /\ registered_keys = {}
    /\ registered_types = {}
    /\ filename = "f"
    /\ state_changed = TRUE
    /\ disk = <<>>
    /\ lop = [op |-> "__init__", err |-> "none", names |-> <<>>,
              state |-> <<>>, folder |-> PyNone, fname |-> PyNone,
              changed |-> TRUE, wrote |-> FALSE]

\* ODEPlant.__init__ with the defaults: no noise, no angle dimensions
InitPlant ==
    /\ noise_dist = PyNone
    /\ angle_dims = FALSE
    /\ plant_state = None /\ plant_u = None /\ plant_t = 0
    /\ solver_t = 0 /\ solver_y = None /\ solver_ok = TRUE
    /\ aliased = FALSE
    /\ t1 = 0
    /\ pc = "idle"
    /\ pop = [op |-> "__init__", err |-> "none", ret |-> None]

\* PlantDraw.__init__: no thread, no process, the event not set
InitDraw ==
    /\ running = FALSE
    /\ pipe = <<>>
    /\ poll_pc = "none" /\ draw_pc = "none"
    /\ main_pc = "new"
    /\ poll_msg = None

InitShell == InitLoadable /\ InitPlant /\ InitDraw

InitRollout ==
    /\ graphs = <<>>
    /\ cur = 0
    /\ status = "idle"
    /\ mx0 = R(0) /\ Sx0 = R(0) /\ H = 0 /\ gamma0 = R(0)
    /\ z = <<>> /\ x0 = <<>> /\ x = <<>>
    /\ gamma = R(0) /\ t = 0
    /\ mcosts = <<>> /\ costs = <<>> /\ trajectories = <<>>
    /\ raw_mc = <<>> /\ raw_c = <<>>
    /\ mx_next = R(0) /\ Sx_next = R(0)
    /\ loss = R(0)
    /\ mark = None

Init ==
    /\ InitRollout
    /\ fn = "none"
    /\ mx = <<0, 0>>
    /\ Sx = <<<<0, 0>>, <<0, 0>>>>
    /\ params = [Q |-> <<<<0, 0>>, <<0, 0>>>>, target |-> <<0, 0>>]
    /\ result = None
    /\ InitShell

\* get_loss(pol, dyn, cost, D, angle_dims, n_samples, resample_particles, crn):
\* builds one graph; with crn it samples a fresh shared buffer z
Build(limit, slices, crns, resamples, pols, dyns) ==
    /\ status # "scan"
    /\ Len(graphs) < limit
    /\ \E crn \in crns, rs \in resamples, pol \in pols, dyn \in dyns :
        \E buf \in (IF crn THEN [1..Capacity -> slices] ELSE {<<>>}) :
          graphs' = Append(graphs,
                       [ crn |-> crn, resample |-> rs, pol |-> pol, dyn |-> dyn,
                         z |-> buf ])
    /\ UNCHANGED <<callVars, mark, costVars, shellVars>>

\* the ghost record of a call, kept for a later comparison
Remember(g, m, S, h, zs, xs) ==
    [ g |-> g, H |-> h, mx0 |-> m, Sx0 |-> S, z |-> zs, x0 |-> xs,
      buf |-> graphs[g].z, others |-> FALSE ]

\* rollout_fn(mx0, Sx0, H, gamma): the noise sequence, the Cholesky factor of
\* Sx0 and the initial particles; then the scan starts
Call(g, m, S, h, g0, fresh, mk) ==
    /\ status # "scan"
    /\ g \in DOMAIN graphs
    /\ LET cfg == graphs[g]
           zs == IF cfg.crn THEN crn_noise(cfg.z, h) ELSE fresh
           ch == cholesky(S)
           xs == IF ch.ok /\ Len(zs) > 0 THEN reproject(m, ch.L, zs[1]) ELSE <<>>
       IN  /\ cur' = g
           /\ mx0' = m /\ Sx0' = S /\ H' = h /\ gamma0' = g0
           /\ z' = zs
           /\ x0' = xs
           /\ x' = xs
           /\ gamma' = scan_init_gamma(g0)
           /\ t' = 0
           /\ mcosts' = <<>> /\ costs' = <<>> /\ trajectories' = <<>>
           /\ raw_mc' = <<>> /\ raw_c' = <<>>
           /\ mx_next' = R(0) /\ Sx_next' = R(0)
           /\ loss' = R(0)
           /\ status' = IF ~ch.ok THEN "LinAlgError"
                        ELSE IF Len(zs) < h THEN "ValueError"
                        ELSE "scan"
           /\ mark' = IF mark = None
                      THEN (IF mk THEN Remember(g, m, S, h, zs, xs) ELSE None)
                      ELSE IF g # mark.g \/ h # mark.H
                           THEN [mark EXCEPT !.others = TRUE]
                           ELSE mark
    /\ UNCHANGED <<graphs, costVars, shellVars>>

\* one iteration of theano.scan over step_rollout
Step ==
    /\ status = "scan"
    /\ t < H
    /\ LET r == step_rollout(z[t + 1], x, gamma, gamma0, graphs[cur])
       IN  /\ mx_next' = r.mx_next
           /\ Sx_next' = r.Sx_next
           /\ IF r.ok
              THEN /\ mcosts' = Append(mcosts, r.mcost)
                   /\ costs' = Append(costs, r.cost)
                   /\ trajectories' = Append(trajectories, r.x_next)
                   /\ raw_mc' = Append(raw_mc, r.mc_next)
                   /\ raw_c' = Append(raw_c, r.c_next)
                   /\ x' = r.x_next
                   /\ gamma' = r.gamma
                   /\ t' = t + 1
                   /\ UNCHANGED status
              ELSE /\ status' = "LinAlgError"
                   /\ UNCHANGED <<mcosts, costs, trajectories, raw_mc, raw_c,
                                  x, gamma, t>>
    /\ UNCHANGED <<graphs, cur, mx0, Sx0, H, gamma0, z, x0, loss, mark,
                   costVars, shellVars>>

\* the scan is over: outputs are transposed, the loss is the mean of the mean
\* costs, and the updates of the compiled function are applied
Return ==
    /\ status = "scan"
    /\ t = H
    /\ status' = "done"
    /\ loss' = Mean(mcosts)
    /\ costs' = Transpose(costs)
    /\ trajectories' = Transpose(trajectories)
    /\ graphs' = [graphs EXCEPT ![cur].z = shared_after_call(@, H)]
    /\ UNCHANGED <<cur, mx0, Sx0, H, gamma0, z, x0, x, gamma, t, mcosts,
                   raw_mc, raw_c, mx_next, Sx_next, mark, costVars,
                   shellVars>>

(* ------------------------------------------------------------------ *)
(* Specifications                                                     *)
(* ------------------------------------------------------------------ *)

\* m_rng.normal((H, n_samples, D)): new samples with every evaluation
\* of a graph built without crn
FreshNoise(g, h) ==
    IF g \in DOMAIN graphs /\ ~graphs[g].crn
    THEN [1..h -> CrnSlices] ELSE {<<>>}

\* one graph of any configuration, evaluated step by step
CallAny ==
    \E m \in MeanVals, S \in CovVals, h \in 1..MaxH, g0 \in GammaVals :
        \E fresh \in FreshNoise(1, h) :
            Call(1, m, S, h, g0, fresh, FALSE)

BuildAny == Build(1, NoiseSlices, BOOLEAN, BOOLEAN, PolKinds, DynKinds)

Next == BuildAny \/ CallAny \/ Step \/ Return

Spec == Init /\ [][Next]_vars

\* two crn graphs, evaluated repeatedly with varying horizons; an evaluation
\* of the first graph may be remembered
BuildCrn == Build(2, CrnSlices, {TRUE}, {TRUE}, {"identity"}, {"zero"})

CallCrn ==
    \E g \in 1..2, S \in {R(1), R(4)}, h \in 1..MaxHCrn :
        \E mk \in (IF g = 1 THEN BOOLEAN ELSE {FALSE}) :
            Call(g, R(0), S, h, <<1, 2>>, <<>>, mk)

NextCrn == BuildCrn \/ CallCrn \/ Step \/ Return

SpecCrn == Init /\ [][NextCrn]_vars

(* ------------------------------------------------------------------ *)
(* Properties of the rollout (specification Spec)                     *)
(* ------------------------------------------------------------------ *)

Evaluating == cur \in DOMAIN graphs /\ status \in {"scan", "done"}

\* the discounted cost emitted for particle i at step k (k = t + 1); the
\* outputs are batch-major once the evaluation has returned
EmittedCost(k, i) == IF status = "done" THEN costs[i][k] ELSE costs[k][i]

\* C1: for every step t (k = t + 1) the emitted mean cost and per-particle
\* costs are the raw costs of the step times gamma0^(t+1), and the discount
\* carried into step t is gamma0^(t+1)
C1_DiscountSchedule ==
    Evaluating =>
        /\ gamma = RPow(gamma0, t + 1)
        /\ \A k \in 1..Len(mcosts) :
              /\ mcosts[k] = RMul(RPow(gamma0, k), raw_mc[k])
              /\ \A i \in Particles :
                    EmittedCost(k, i) = RMul(RPow(gamma0, k), raw_c[k][i])

C1_Witness ==
    /\ status = "done" /\ H = 3 /\ gamma0 = <<1, 2>>
    /\ raw_mc[3] # R(0) /\ mcosts[3] = RDivN(raw_mc[3], 8)

\* C5: the ensemble carried into every step and every recorded trajectory
\* step have as many particles as the initial ensemble, with resampling
\* enabled or disabled
C5_ParticleCount ==
    Evaluating =>
        /\ Len(x0) = NSamples
        /\ Len(x) = Len(x0)
        /\ IF status = "done"
           THEN Len(trajectories) = Len(x0)
           ELSE \A k \in 1..Len(trajectories) : Len(trajectories[k]) = Len(x0)

C5_Witness ==
    /\ status = "done" /\ H >= 2 /\ graphs[cur].resample
    /\ Len(trajectories) = NSamples

ZeroDeltaIdentity ==
    /\ cur \in DOMAIN graphs
    /\ graphs[cur].dyn = "zero"
    /\ graphs[cur].pol = "identity"

ConstantAtX0 ==
    \A i \in Particles, k \in 1..H :
        /\ trajectories[i][k] = x0[i]
        /\ costs[i][k] = RMul(RPow(gamma0, k), cost_elem(x0)[i])

\* C6 as stated: with a zero dynamics delta and an identity policy, H = 3,
\* the trajectory stays at x0 and costs are the discounted costs of x0
C6_Original ==
    (status = "done" /\ ZeroDeltaIdentity /\ H = 3) => ConstantAtX0

\* C6 amended: the same, for a graph built with resample_particles = False
C6_ConstantWithoutResampling ==
    (status = "done" /\ ZeroDeltaIdentity /\ H = 3 /\ ~graphs[cur].resample)
        => ConstantAtX0

C6_Witness ==
    /\ status = "done" /\ ZeroDeltaIdentity /\ H = 3 /\ ~graphs[cur].resample
    /\ x0[1] # x0[2]
    /\ trajectories[1][3] = x0[1]

\* a noise slice with empirical mean 0 and empirical covariance 1
Standardised(zt) == Mean(zt) = R(0) /\ Cov(zt) = R(1)

Resampled ==
    Evaluating /\ t >= 1 /\ graphs[cur].resample

\* C7 as stated: after every resampling step the empirical moments of the
\* reprojected ensemble equal (mx_next, Sx_next), whatever the noise slice
C7_Original ==
    Resampled => (Mean(x) = mx_next /\ Cov(x) = Sx_next)

\* C7 amended: they are equal when the noise slice of the step has empirical
\* mean 0 and empirical covariance 1
C7_MomentsWithStandardNoise ==
    (Resampled /\ Standardised(z[t])) => (Mean(x) = mx_next /\ Cov(x) = Sx_next)

C7_Witness ==
    /\ Resampled /\ Standardised(z[t])
    /\ Sx_next = R(4) /\ Cov(x) = R(4)

\* C8 as stated: no Cholesky failure occurs when a built graph is evaluated
C8_Original ==
    ~(cur \in DOMAIN graphs /\ status = "LinAlgError")

\* C8 amended: a Cholesky failure is raised by an evaluation of a built
\* graph, exactly when Sx0 is not positive definite or the covariance of a
\* resampling step is not; such an evaluation never proceeds
C8_FailsAtEvaluation ==
    /\ status = "LinAlgError" =>
          /\ cur \in DOMAIN graphs
          /\ \/ ~RPos(Sx0)
             \/ graphs[cur].resample /\ ~RPos(Sx_next)
    /\ Evaluating => RPos(Sx0)
    /\ Resampled => RPos(Sx_next)

C8_Witness ==
    /\ status = "LinAlgError" /\ RPos(Sx0)
    /\ graphs[cur].resample /\ ~RPos(Sx_next)

\* the ensemble recorded for step k (k = t + 1); the outputs are batch-major
\* once the evaluation has returned
TrajStep(k) ==
    IF status = "done"
    THEN [i \in 1..Len(trajectories) |-> trajectories[i][k]]
    ELSE trajectories[k]

\* the ensemble step k starts from: x0 for the first step, else the ensemble
\* recorded by the step before
CarriedInto(k) == IF k = 1 THEN x0 ELSE TrajStep(k - 1)

\* x_next of step k before the resampling
PropagatedAt(k) ==
    propagate_particles(CarriedInto(k), graphs[cur].pol, graphs[cur].dyn)

\* C11: in every step the mean cost and the per-particle costs are those of
\* the propagated ensemble, taken before the resampling; the ensemble
\* recorded in the trajectory and carried into the next step is the
\* resampled ensemble when resample is enabled and the propagated ensemble
\* itself when it is disabled
C11_CostBeforeResampling ==
    Evaluating =>
        /\ \A k \in 1..Len(raw_mc) :
              LET xp == PropagatedAt(k)
              IN  /\ raw_mc[k] = cost_mean(Mean(xp), Cov(xp))
                  /\ raw_c[k] = cost_elem(xp)
                  /\ TrajStep(k) =
                        IF graphs[cur].resample
                        THEN resample_particles(Mean(xp), cholesky(Cov(xp)).L,
                                                z[k])
                        ELSE xp
        /\ x = CarriedInto(t + 1)

\* an evaluation with resampling in which the costs of a step are not the
\* costs of the ensemble recorded for that step
C11_Witness ==
    /\ status = "done" /\ graphs[cur].resample
    /\ \E k \in 1..H :
          /\ TrajStep(k) # PropagatedAt(k)
          /\ raw_c[k] # cost_elem(TrajStep(k))
          /\ raw_c[k] = cost_elem(PropagatedAt(k))

(* ------------------------------------------------------------------ *)
(* Properties of the noise buffer (specification SpecCrn)             *)
(* ------------------------------------------------------------------ *)

\* C2: an evaluation never modifies the stored buffer of a crn graph, and
\* a later evaluation of the graph with the same H uses the same noise
\* slices (and, for the same mx0 and Sx0, the same initial particles)
C2_SameNoiseForSameH ==
    (mark # None /\ graphs[mark.g].crn) =>
        /\ graphs[mark.g].z = mark.buf
        /\ (status # "idle" /\ cur = mark.g /\ H = mark.H) =>
              /\ z = mark.z
              /\ (mx0 = mark.mx0 /\ Sx0 = mark.Sx0) => x0 = mark.x0

C2_Witness ==
    /\ mark # None /\ mark.others
    /\ status = "done" /\ cur = mark.g /\ H = mark.H
    /\ mx0 = mark.mx0 /\ Sx0 = mark.Sx0 /\ x0 = mark.x0 /\ z = mark.z

\* C3 as stated: evaluations of two separately built crn graphs with the
\* same mx0, Sx0 and H draw the same initial particles
C3_SameParticlesAcrossBuilds ==
    ( /\ mark # None /\ status # "idle"
      /\ cur # mark.g
      /\ graphs[cur].crn /\ graphs[mark.g].crn
      /\ mx0 = mark.mx0 /\ Sx0 = mark.Sx0 /\ H = mark.H )
        => x0 = mark.x0

\* C4: with crn the noise sequence has exactly H slices, slice t being
\* buffer slice (t mod capacity); beyond the capacity the buffer is tiled
\* ceil(H/capacity) times, which gives at least H rows
C4_NoiseSlices ==
    (status # "idle" /\ cur \in DOMAIN graphs /\ graphs[cur].crn) =>
        LET buf == graphs[cur].z
        IN  /\ Len(z) = H
            /\ \A k \in 1..H : z[k] = buf[((k - 1) % Len(buf)) + 1]
            /\ H > Len(buf) =>
                  Len(Tile(buf, CeilDiv(H, Len(buf)))) >= H

C4_Witness ==
    /\ status = "done" /\ graphs[cur].crn
    /\ H = 2 * Capacity /\ Len(z) = H
    /\ z[H] = graphs[cur].z[Capacity]

(* ------------------------------------------------------------------ *)
(* cost.py on 2x2 integer matrices                                    *)
(* ------------------------------------------------------------------ *)

Idx == {1, 2}
Eye == <<<<1, 0>>, <<0, 1>>>>
MatMul(A, B) ==
    [i \in Idx |-> [j \in Idx |-> A[i][1] * B[1][j] + A[i][2] * B[2][j]]]
MatAdd(A, B) == [i \in Idx |-> [j \in Idx |-> A[i][j] + B[i][j]]]
MatT(A) == [i \in Idx |-> [j \in Idx |-> A[j][i]]]
Scale(k, A) == [i \in Idx |-> [j \in Idx |-> k * A[i][j]]]
VecSub(u, v) == [i \in Idx |-> u[i] - v[i]]
\* v.T.dot(A) and A.dot(v)
VecMat(v, A) == [j \in Idx |-> v[1] * A[1][j] + v[2] * A[2][j]]
MatVec(A, v) == [i \in Idx |-> A[i][1] * v[1] + A[i][2] * v[2]]
Dot(u, v) == u[1] * v[1] + u[2] * v[2]
\* T.sum(A): the sum of all entries
SumAll(A) == A[1][1] + A[1][2] + A[2][1] + A[2][2]
Trace(A) == A[1][1] + A[2][2]
\* theano.tensor.nlinalg.det
Det(A) == A[1][1] * A[2][2] - A[1][2] * A[2][1]
\* det(A) * inverse(A)
Adj(A) == <<<<A[2][2], -A[1][2]>>, <<-A[2][1], A[1][1]>>>>
Frac(n, d) == IF d > 0 THEN Norm(n, d) ELSE Norm(-n, -d)

\* exp(e)/sqrt(d): the exponent and determinant are kept; the value is a
\* finite float for d > 0 and nan (sqrt of a negative number) for d < 0
SatTerm(e, d) ==
    [class |-> IF d > 0 THEN "finite" ELSE "nan", exp |-> e, det |-> d]

linear_loss(m, S, prm) ==
    LET Q == prm.Q
        delta == VecSub(m, prm.target)
    IN  [ kind |-> "return",
          m_cost |-> MatVec(MatT(Q), delta),
          s_cost |-> MatMul(MatMul(MatT(Q), S), Q) ]

\* the names bound when line 26 is evaluated; a name that is not bound
\* raises NameError
quadratic_loss(m, S, prm) ==
    LET Q == prm.Q
        delta == VecSub(m, prm.target)
        deltaQ == VecMat(delta, Q)
        SxQ == MatMul(S, Q)
        m_cost == SumAll(SxQ) + Dot(deltaQ, delta)
        env == [delta |-> delta, deltaQ |-> deltaQ]
    IN  IF "deltaiQ" \in DOMAIN env
        THEN [ kind |-> "return",
               m_cost |-> m_cost,
               s_cost |-> 2 * SumAll(MatMul(SxQ, SxQ))
                          + 4 * Dot(VecMat(deltaQ, S), env["deltaiQ"]) ]
        ELSE [ kind |-> "raise", error |-> "NameError" ]

\* matrix_inverse raises LinAlgError on a singular matrix; otherwise
\* m_cost = -exp(-delta.S1.delta/2)/sqrt(det(I + SxQ)) and
\* s_cost = exp(-delta.S2.delta)/sqrt(det(I + 2 SxQ)) - m_cost^2
quadratic_saturating_loss(m, S, prm) ==
    LET Q == prm.Q
        delta == VecSub(m, prm.target)
        SxQ == MatMul(S, Q)
        IpSxQ == MatAdd(Eye, SxQ)
        Ip2SxQ == MatAdd(Eye, Scale(2, SxQ))
        d1 == Det(IpSxQ)
        d2 == Det(Ip2SxQ)
        q1 == Dot(delta, MatVec(MatMul(Q, Adj(IpSxQ)), delta))
        q2 == Dot(delta, MatVec(MatMul(Q, Adj(Ip2SxQ)), delta))
        mterm == SatTerm(Frac(-q1, 2 * d1), d1)
        sterm == SatTerm(Frac(-q2, d2), d2)
    IN  IF d1 = 0 \/ d2 = 0
        THEN [ kind |-> "raise", error |-> "LinAlgError" ]
        ELSE [ kind |-> "return",
               m_cost |-> mterm,
               s_cost |-> [ sterm EXCEPT !.class =
                              IF mterm.class = "nan" THEN "nan" ELSE @ ] ]

MeanVecs == { <<0, 0>>, <<1, 0>>, <<1, 1>> }
TargetVecs == { <<0, 0>>, <<0, 1>> }
CovMats == { <<<<0, 0>>, <<0, 0>>>>, <<<<1, 0>>, <<0, 1>>>>,
             <<<<1, 1>>, <<1, 1>>>>, <<<<2, 1>>, <<1, 1>>>> }
WeightMats == { <<<<1, 0>>, <<0, 1>>>>, <<<<1, 0>>, <<0, 0>>>>,
                <<<<-1, 0>>, <<0, 1>>>>, <<<<-2, 0>>, <<0, 1>>>> }

InitCost ==
    /\ InitRollout
    /\ fn = "none"
    /\ mx \in MeanVecs
    /\ Sx \in CovMats
    /\ params \in [Q : WeightMats, target : TargetVecs]
    /\ result = None
    /\ InitShell

ApplyLinearLoss ==
    /\ fn = "none"
    /\ fn' = "linear_loss"
    /\ result' = linear_loss(mx, Sx, params)
    /\ UNCHANGED <<graphs, callVars, mark, mx, Sx, params, shellVars>>

ApplyQuadraticLoss ==
    /\ fn = "none"
    /\ fn' = "quadratic_loss"
    /\ result' = quadratic_loss(mx, Sx, params)
    /\ UNCHANGED <<graphs, callVars, mark, mx, Sx, params, shellVars>>

ApplyQuadraticSaturatingLoss ==
    /\ fn = "none"
    /\ fn' = "quadratic_saturating_loss"
    /\ result' = quadratic_saturating_loss(mx, Sx, params)
    /\ UNCHANGED <<graphs, callVars, mark, mx, Sx, params, shellVars>>

NextCost ==
    ApplyLinearLoss \/ ApplyQuadraticLoss \/ ApplyQuadraticSaturatingLoss

SpecCost == InitCost /\ [][NextCost]_vars

(* ------------------------------------------------------------------ *)
(* Properties of the cost functions (specification SpecCost)          *)
(* ------------------------------------------------------------------ *)

\* C9 as stated: when det(I + Sx.Q) or det(I + 2.Sx.Q) is zero or
\* negative, quadratic_saturating_loss fails with an error or returns
\* finite costs; it never returns an undefined cost
C9_DegenerateGuarded ==
    LET SxQ == MatMul(Sx, params.Q)
        d1 == Det(MatAdd(Eye, SxQ))
        d2 == Det(MatAdd(Eye, Scale(2, SxQ)))
    IN  (fn = "quadratic_saturating_loss" /\ (d1 <= 0 \/ d2 <= 0)) =>
            \/ result.kind = "raise"
            \/ /\ result.kind = "return"
               /\ result.m_cost.class = "finite"
               /\ result.s_cost.class = "finite"

\* C10 as stated: quadratic_loss returns a pair whose mean cost is
\* trace(Sx.Q) + (mx - target)^T.Q.(mx - target)
C10_ExpectedQuadraticCost ==
    LET delta == VecSub(mx, params.target)
    IN  fn = "quadratic_loss" =>
            /\ result.kind = "return"
            /\ result.m_cost = Trace(MatMul(Sx, params.Q))
                               + Dot(VecMat(delta, params.Q), delta)

(* ------------------------------------------------------------------ *)
(* base/Loadable.py: registration, state dictionaries, load and save  *)
(*                                                                    *)
(* obj_dict holds the attributes of the instance other than the five  *)
(* fields of Loadable.__init__; a value is its type and its name      *)
(* attribute (NoName when it has none).                               *)
(* ------------------------------------------------------------------ *)

\* longest list handed to register / unregister / (un)register_types
MaxNames == 2

AttrNames == {"a", "b"}
Types == {"int", "shared"}
NoName == "<no name attribute>"
Values ==
    { [type |-> "int", name |-> NoName],
      [type |-> "shared", name |-> PyNone],
      [type |-> "shared", name |-> "w.b"],
      [type |-> "shared", name |-> "w[[dot]]b"] }

Lists(S) == UNION { [1..n -> S] : n \in 1..MaxNames }
Range(f) == { f[i] : i \in DOMAIN f }
StateDicts(names, values) == UNION { [ks -> values] : ks \in SUBSET names }

\* d[k] = v on a dictionary
Put(d, k, v) == [n \in DOMAIN d \cup {k} |-> IF n = k THEN v ELSE d[n]]

\* any([isinstance(value, type_) for type_ in self.registered_types])
isinstance_any(value, types) == \E type_ \in types : value.type = type_

\* value.name = value.name.replace('[[dot]]', '.') when the value has a name
restore_name(value) ==
    IF value.name = NoName \/ value.name = PyNone THEN value
    ELSE [value EXCEPT !.name = IF @ = "w[[dot]]b" THEN "w.b" ELSE @]

\* the names added before the first one that stops the loop at index stop
Upto(names, stop) == { names[i] : i \in 1..(stop - 1) }
FirstIn(bad, n) ==
    IF bad = {} THEN n + 1 ELSE CHOOSE i \in bad : \A j \in bad : i <= j

\* variant: register adds every name without the assertion
register_unchecked(d, keys, names) ==
    [keys |-> keys \cup Range(names), err |-> "none"]
\* register(variable_names): each name is asserted to be an attribute and
\* then added; the assertion ends the loop
register(d, keys, names) ==
    LET bad == { i \in 1..Len(names) : names[i] \notin DOMAIN d }
    IN  [ keys |-> keys \cup Upto(names, FirstIn(bad, Len(names))),
          err |-> IF bad = {} THEN "none" ELSE "AssertionError" ]

\* unregister(variable_names): names that are registered are removed
unregister(keys, names) == keys \ Range(names)

\* register_types(types_)
register_types(types, types_) == types \cup Range(types_)

\* unregister_types(types_): set.remove raises KeyError on an absent type
unregister_types(types, types_) ==
    LET bad == { i \in 1..Len(types_) :
                    types_[i] \notin types \ Upto(types_, i) }
    IN  [ types |-> types \ Upto(types_, FirstIn(bad, Len(types_))),
          err |-> IF bad = {} THEN "none" ELSE "KeyError" ]

\* variant: a key is registered only when both tests of the condition hold
needs_register_both(value, key, keys, types) ==
    ~isinstance_any(value, types) /\ key \notin keys
\* the condition under which set_instance_state registers a key
needs_register(value, key, keys, types) ==
    ~isinstance_any(value, types) \/ key \notin keys

\* set_instance_state(state): every entry is written to the instance and
\* registered when the condition asks for it
RECURSIVE set_instance_state_loop(_, _, _, _, _)
set_instance_state_loop(d, keys, types, state, todo) ==
    IF todo = {} THEN [dict |-> d, keys |-> keys, err |-> "none"]
    ELSE LET key == CHOOSE k \in todo : TRUE
             value == restore_name(state[key])
             d1 == Put(d, key, value)
             r == IF needs_register(value, key, keys, types)
                  THEN register(d1, keys, <<key>>)
                  ELSE [keys |-> keys, err |-> "none"]
         IN  IF r.err # "none"
             THEN [dict |-> d1, keys |-> r.keys, err |-> r.err]
             ELSE set_instance_state_loop(d1, r.keys, types, state,
                                          todo \ {key})

set_instance_state(d, keys, types, state) ==
    set_instance_state_loop(d, keys, types, state, DOMAIN state)

\* get_instance_state(): the registered keys, then every attribute of a
\* registered type; a registered key that is no attribute is a KeyError
get_instance_state(d, keys, types) ==
    IF ~(keys \subseteq DOMAIN d)
    THEN [err |-> "KeyError", state |-> <<>>]
    ELSE [err |-> "none",
          state |-> [n \in keys \cup { a \in DOMAIN d :
                                         isinstance_any(d[a], types) }
                       |-> d[n]]]

\* utils.get_output_dir(): the default output directory
get_output_dir == "out"

\* utils.sync_output_filename(output_filename, obj_filename, '.zip'): the
\* name given by the caller becomes the name of the object, else the name
\* of the object is used
sync_output_filename(output_filename, obj_filename) ==
    IF output_filename # PyNone
    THEN [output_filename |-> output_filename, obj_filename |-> output_filename]
    ELSE [output_filename |-> obj_filename, obj_filename |-> obj_filename]

\* os.path.join(output_folder, output_filename) with the zip extension
PathOf(output_folder, output_filename) == <<output_folder, output_filename>>

\* the variables of the rollout and of the cost functions
otherVars == <<graphs, callVars, mark, costVars, plantVars, drawVars>>

Called(op) ==
    [op |-> op, err |-> "none", names |-> <<>>, state |-> <<>>,
     folder |-> PyNone, fname |-> PyNone, changed |-> state_changed,
     wrote |-> FALSE]

\* an attribute is assigned on the instance
SetAttr(names, values) ==
    /\ \E k \in names, v \in values : obj_dict' = Put(obj_dict, k, v)
    /\ lop' = Called("setattr")
    /\ UNCHANGED <<registered_keys, registered_types, filename,
                   state_changed, disk,
                   otherVars>>

\* the state of the instance is marked as changed
Touch ==
    /\ ~state_changed
    /\ state_changed' = TRUE
    /\ lop' = Called("touch")
    /\ UNCHANGED <<obj_dict, registered_keys, registered_types, filename,
                   disk,
                   otherVars>>

Register(names) ==
    /\ LET r == register(obj_dict, registered_keys, names)
       IN  /\ registered_keys' = r.keys
           /\ lop' = [Called("register") EXCEPT !.err = r.err,
                                                 !.names = names]
    /\ UNCHANGED <<obj_dict, registered_types, filename, state_changed,
                   disk,
                   otherVars>>

Unregister(names) ==
    /\ registered_keys' = unregister(registered_keys, names)
    /\ lop' = [Called("unregister") EXCEPT !.names = names]
    /\ UNCHANGED <<obj_dict, registered_types, filename, state_changed,
                   disk,
                   otherVars>>

RegisterTypes(types_) ==
    /\ registered_types' = register_types(registered_types, types_)
    /\ lop' = [Called("register_types") EXCEPT !.names = types_]
    /\ UNCHANGED <<obj_dict, registered_keys, filename, state_changed,
                   disk,
                   otherVars>>

UnregisterTypes(types_) ==
    /\ LET r == unregister_types(registered_types, types_)
       IN  /\ registered_types' = r.types
           /\ lop' = [Called("unregister_types") EXCEPT !.err = r.err,
                                                         !.names = types_]
    /\ UNCHANGED <<obj_dict, registered_keys, filename, state_changed,
                   disk,
                   otherVars>>

SetInstanceState(state) ==
    /\ LET r == set_instance_state(obj_dict, registered_keys,
                                   registered_types, state)
       IN  /\ obj_dict' = r.dict
           /\ registered_keys' = r.keys
           /\ lop' = [Called("set_instance_state") EXCEPT !.err = r.err,
                                                           !.state = state]
    /\ UNCHANGED <<registered_types, filename, state_changed, disk,
                   otherVars>>

\* save(output_folder, output_filename)
Save(folder, fname) ==
    LET output_folder == IF folder = PyNone THEN get_output_dir ELSE folder
        sync == sync_output_filename(fname, filename)
        output_filename == sync.output_filename
        gs == get_instance_state(obj_dict, registered_keys, registered_types)
        call == [Called("save") EXCEPT !.folder = folder, !.fname = fname]
    IN  /\ filename' = sync.obj_filename
        /\ IF state_changed \/ output_folder # PyNone
              \/ output_filename # PyNone
           THEN /\ disk' = Put(disk, PathOf(output_folder, output_filename),
                               gs.state)
                /\ state_changed' = (gs.err # "none" /\ state_changed)
                /\ lop' = [call EXCEPT !.err = gs.err, !.wrote = TRUE]
           ELSE /\ lop' = call
                /\ UNCHANGED <<disk, state_changed,
                   otherVars>>
        /\ UNCHANGED <<obj_dict, registered_keys, registered_types,
                   otherVars>>

\* load(output_folder, output_filename)
Load(folder, fname) ==
    LET output_folder == IF folder = PyNone THEN get_output_dir ELSE folder
        sync == sync_output_filename(fname, filename)
        path == PathOf(output_folder, sync.output_filename)
        call == [Called("load") EXCEPT !.folder = folder, !.fname = fname]
    IN  /\ filename' = sync.obj_filename
        /\ IF path \in DOMAIN disk
           THEN LET r == set_instance_state(obj_dict, registered_keys,
                                            registered_types, disk[path])
                IN  /\ obj_dict' = r.dict
                    /\ registered_keys' = r.keys
                    /\ state_changed' = (r.err # "none" /\ state_changed)
                    /\ lop' = [call EXCEPT !.err = r.err,
                                           !.state = disk[path]]
           ELSE /\ lop' = [call EXCEPT !.err = "IOError"]
                /\ UNCHANGED <<obj_dict, registered_keys, state_changed,
                   otherVars>>
        /\ UNCHANGED <<registered_types, disk,
                   otherVars>>

\* registration and state dictionaries of one instance
NextLoadable ==
    \/ SetAttr(AttrNames, Values)
    \/ \E names \in Lists(AttrNames) : Register(names)
    \/ \E names \in Lists(AttrNames) : Unregister(names)
    \/ \E types_ \in Lists(Types) : RegisterTypes(types_)
    \/ \E types_ \in Lists(Types) : UnregisterTypes(types_)
    \/ \E state \in StateDicts(AttrNames, Values) : SetInstanceState(state)

SpecLoadable == Init /\ [][NextLoadable]_vars

SaveFolders == {PyNone, "alt"}
SaveNames == {PyNone, "g"}
SaveValues == { v \in Values : v.name \in {NoName, "w[[dot]]b"} }

\* one instance with one attribute, saved and loaded
NextSave ==
    \/ SetAttr({"a"}, SaveValues)
    \/ Register(<<"a">>)
    \/ Touch
    \/ \E folder \in SaveFolders, fname \in SaveNames : Save(folder, fname)
    \/ \E folder \in SaveFolders, fname \in SaveNames : Load(folder, fname)

SpecSave == Init /\ [][NextSave]_vars

(* ------------------------------------------------------------------ *)
(* Properties of Loadable (specifications SpecLoadable and SpecSave)  *)
(* ------------------------------------------------------------------ *)

C15_SaveOnlyWhenNeeded ==
    lop.op = "save" =>
        /\ lop.wrote =>
              \/ lop.changed
              \/ lop.folder # PyNone
              \/ lop.fname # PyNone
        /\ lop.wrote => ~state_changed

(* ------------------------------------------------------------------ *)
(* shell/plant.py: Plant.get_state, ODEPlant.set_state and _step      *)
(*                                                                    *)
(* The state has one dimension and integer values, time is counted in *)
(* ticks. An array is <<v>>; self.state and the array inside the      *)
(* solver are one object while aliased is TRUE.                       *)
(* ------------------------------------------------------------------ *)

\* largest absolute value of a state and latest solver time explored
MaxState == 2
MaxT == 4

\* self.dt in ticks
DtTicks == 2

NoiseSamples == {-1, 1}
StateVals == {0, 1}
Controls == {0, 1}

\* kusanagi.utils.gTrig_np(state, angle_dims): the angle is replaced by its
\* sine and cosine, in a new array
gTrig_np(arr) ==
    << [f |-> "sin", arg |-> arr[1]], [f |-> "cos", arg |-> arr[1]] >>

\* array.flatten(): a copy with the same entries
flatten(arr) == [i \in DOMAIN arr |-> [f |-> "id", arg |-> arr[i]]]

\* state += sample on a numpy array: the array itself is updated
iadd(arr, sample) == <<arr[1] + sample>>

\* Plant.get_state(noisy): object is the array self.state refers to when
\* the call returns, ret the measurement handed back
get_state(self_state, noisy, noise, angles, sample) ==
    IF self_state = None THEN [err |-> "TypeError", object |-> None,
                               ret |-> None]
    ELSE LET measured == IF noisy /\ noise # PyNone
                         THEN iadd(self_state, sample) ELSE self_state
             local == IF angles THEN gTrig_np(measured) ELSE flatten(measured)
         IN  [err |-> "none", object |-> measured, ret |-> local]

PlantCalled(op) == [op |-> op, err |-> "none", ret |-> None]

\* the variables other than those of the plant
notPlant == <<graphs, callVars, mark, costVars, loadVars, drawVars>>

\* Plant.__init__ / ODEPlant.__init__(dt, noise_dist, angle_dims)
Construct(noise, angles) ==
    /\ pc = "idle"
    /\ noise_dist' = noise
    /\ angle_dims' = angles
    /\ plant_state' = None /\ plant_u' = None /\ plant_t' = 0
    /\ solver_t' = 0 /\ solver_y' = None /\ solver_ok' = TRUE
    /\ aliased' = FALSE
    /\ t1' = 0
    /\ pop' = PlantCalled("__init__")
    /\ UNCHANGED <<pc, notPlant>>

\* ODEPlant.set_state(state): a new array unless the value is the stored
\* one; the solver takes the array of self.state as its initial value
SetState(v) ==
    /\ pc = "idle"
    /\ plant_state' = <<v>>
    /\ solver_y' = <<v>>
    /\ aliased' = TRUE
    /\ solver_t' = 0
    /\ solver_ok' = TRUE
    /\ plant_t' = 0
    /\ pop' = PlantCalled("set_state")
    /\ UNCHANGED <<noise_dist, angle_dims, plant_u, t1, pc, notPlant>>

\* Plant.get_state(noisy) called between two steps
GetState(noisy, sample) ==
    /\ pc = "idle"
    /\ LET r == get_state(plant_state, noisy, noise_dist, angle_dims, sample)
       IN  /\ r.err = "none" => Abs(r.object[1]) <= MaxState
           /\ plant_state' = r.object
           /\ solver_y' = IF aliased THEN r.object ELSE solver_y
           /\ pop' = [op |-> "get_state", err |-> r.err, ret |-> r.ret]
    /\ UNCHANGED <<noise_dist, angle_dims, plant_u, plant_t, solver_t,
                   solver_ok, aliased, t1, pc, notPlant>>

\* self.solver.successful: the bound method, not its result
successful_attribute == TRUE

\* the test of the while loop of _step
loop_test == successful_attribute /\ solver_t < t1

\* ODEPlant._step(action) up to the loop: apply_control, t1
StepBegin(action) ==
    /\ pc = "idle"
    /\ plant_state # None
    /\ solver_t + 2 * DtTicks <= MaxT
    /\ plant_u' = <<action>>
    /\ t1' = solver_t + DtTicks
    /\ pc' = "test"
    /\ pop' = PlantCalled("_step")
    /\ UNCHANGED <<noise_dist, angle_dims, plant_state, plant_t, solver_t,
                   solver_y, solver_ok, aliased, notPlant>>

\* the loop test holds: the body is entered
LoopEnter ==
    /\ pc = "test"
    /\ loop_test
    /\ pc' = "body"
    /\ UNCHANGED <<noise_dist, angle_dims, plant_state, plant_u, plant_t,
                   solver_t, solver_y, solver_ok, aliased, t1, pop, notPlant>>

\* self.solver.integrate(self.solver.t + dt): the solver reaches the target
\* time, or fails at an earlier time, possibly the one it started from
Integrate(ok, reached) ==
    /\ pc = "body"
    /\ reached \in solver_t..(solver_t + DtTicks)
    /\ ok <=> reached = solver_t + DtTicks
    /\ solver_t' = reached
    /\ solver_ok' = ok
    /\ solver_y' = IF ok /\ Abs(solver_y[1] + plant_u[1]) <= MaxState
                   THEN <<solver_y[1] + plant_u[1]>> ELSE <<solver_y[1]>>
    /\ aliased' = FALSE
    /\ pc' = "test"
    /\ UNCHANGED <<noise_dist, angle_dims, plant_state, plant_u, plant_t, t1,
                   pop, notPlant>>

\* the loop test fails: state and time are copied from the solver
StepReturn ==
    /\ pc = "test"
    /\ ~loop_test
    /\ plant_state' = solver_y
    /\ plant_t' = solver_t
    /\ aliased' = FALSE
    /\ pc' = "idle"
    /\ pop' = [op |-> "_step", err |-> "none", ret |-> flatten(solver_y)]
    /\ UNCHANGED <<noise_dist, angle_dims, plant_u, solver_t, solver_y,
                   solver_ok, t1, notPlant>>

NextPlant ==
    \/ \E noise \in {PyNone, "dist"}, angles \in BOOLEAN :
          Construct(noise, angles)
    \/ \E v \in StateVals : SetState(v)
    \/ \E noisy \in BOOLEAN, sample \in NoiseSamples : GetState(noisy, sample)
    \/ \E action \in Controls : StepBegin(action)
    \/ LoopEnter
    \/ \E ok \in BOOLEAN, reached \in 0..MaxT : Integrate(ok, reached)
    \/ StepReturn

SpecPlant == Init /\ [][NextPlant]_vars

(* ------------------------------------------------------------------ *)
(* Properties of the plant (specification SpecPlant)                  *)
(* ------------------------------------------------------------------ *)

\* C14: a get_state call, noisy or not, with or without angle dimensions,
\* leaves the stored state of the plant as it was
C14_GetStateKeepsState ==
    [][(pop'.op = "get_state" /\ pc = "idle" /\ pc' = "idle")
          => plant_state' = plant_state]_vars

\* C16: the loop of _step ends as soon as the solver reports an
\* unsuccessful integration or the solver time has reached the start time
\* plus dt: its body is entered only after a successful integration and
\* before that time; on return the time and state of the plant are those
\* of the solver
C16_StepLoopEnds ==
    /\ pc = "body" => solver_ok /\ solver_t < t1
    /\ (pop.op = "_step" /\ pc = "idle") =>
          plant_state = solver_y /\ plant_t = solver_t

(* ------------------------------------------------------------------ *)
(* shell/plant.py: PlantDraw, a polling thread and a drawing process  *)
(* joined by a pipe                                                   *)
(* ------------------------------------------------------------------ *)

\* messages the pipe holds before a send blocks
PipeCap == 2

\* current_t of polling_loop: set once, before the loop
current_t == -1

\* the variables other than those of the plant and of the drawer
notDraw == <<graphs, callVars, mark, costVars, loadVars>>

\* the fields of the plant that get_state does not touch
plantFrame == <<noise_dist, angle_dims, plant_u, plant_t, solver_t, solver_ok,
                aliased, t1, pc, pop>>

\* PlantDraw.start(): the flag is set, then both loops are started
Start ==
    /\ main_pc = "new"
    /\ plant_state # None
    /\ running' = TRUE
    /\ poll_pc' = "test"
    /\ draw_pc' = "init"
    /\ main_pc' = "started"
    /\ UNCHANGED <<pipe, poll_msg, plantVars, notDraw>>

\* PlantDraw.stop(): the flag is cleared; both joins give up after 10 s
Stop ==
    /\ main_pc = "started"
    /\ running' = FALSE
    /\ main_pc' = "stopped"
    /\ UNCHANGED <<pipe, poll_pc, draw_pc, poll_msg, plantVars, notDraw>>

\* polling_loop: while self.running.is_set()
PollTest ==
    /\ poll_pc = "test"
    /\ poll_pc' = IF running THEN "get" ELSE "exit"
    /\ UNCHANGED <<running, pipe, draw_pc, main_pc, poll_msg, plantVars,
                   notDraw>>

\* polling_loop: state, t = self.plant.get_state(), then the test on t
PollGet ==
    /\ poll_pc = "get"
    /\ \E sample \in NoiseSamples :
          LET r == get_state(plant_state, TRUE, noise_dist, angle_dims, sample)
          IN  /\ r.err = "none"
              /\ Abs(r.object[1]) <= MaxState
              /\ plant_state' = r.object
              /\ solver_y' = IF aliased THEN r.object ELSE solver_y
              /\ poll_msg' = <<r.ret, plant_t>>
    /\ poll_pc' = IF plant_t # current_t THEN "send" ELSE "test"
    /\ UNCHANGED <<running, pipe, draw_pc, main_pc, plantFrame, notDraw>>

\* polling_loop: polling_pipe.send((state, t)) returns once the pipe has
\* room for the message; then the sleep and the next iteration
PollSend ==
    /\ poll_pc = "send"
    /\ Len(pipe) < PipeCap
    /\ pipe' = Append(pipe, poll_msg)
    /\ poll_pc' = "test"
    /\ UNCHANGED <<running, draw_pc, main_pc, poll_msg, plantVars, notDraw>>

\* drawing_loop: self.init_ui()
DrawInit ==
    /\ draw_pc = "init"
    /\ draw_pc' = "test"
    /\ UNCHANGED <<running, pipe, poll_pc, main_pc, poll_msg, plantVars,
                   notDraw>>

\* drawing_loop: while self.running.is_set(); self.close() after the loop
DrawTest ==
    /\ draw_pc = "test"
    /\ draw_pc' = IF running THEN "poll" ELSE "exit"
    /\ UNCHANGED <<running, pipe, poll_pc, main_pc, poll_msg, plantVars,
                   notDraw>>

\* drawing_loop: while drawing_pipe.poll(): one message is received; None
\* clears the flag and leaves the inner loop, anything else is drawn (no
\* code of PlantDraw sends None)
DrawPoll ==
    /\ draw_pc = "poll"
    /\ IF pipe = <<>>
       THEN /\ draw_pc' = "wait"
            /\ UNCHANGED <<pipe, running>>
       ELSE /\ pipe' = Tail(pipe)
            /\ IF Head(pipe) = None
               THEN running' = FALSE /\ draw_pc' = "wait"
               ELSE UNCHANGED running /\ draw_pc' = "poll"
    /\ UNCHANGED <<poll_pc, main_pc, poll_msg, plantVars, notDraw>>

\* drawing_loop: plt.waitforbuttonpress(...), then the next iteration
DrawWait ==
    /\ draw_pc = "wait"
    /\ draw_pc' = "test"
    /\ UNCHANGED <<running, pipe, poll_pc, main_pc, poll_msg, plantVars,
                   notDraw>>

PollStep == PollTest \/ PollGet \/ PollSend
DrawStep == DrawInit \/ DrawTest \/ DrawPoll \/ DrawWait

NextDraw ==
    \/ \E v \in StateVals : SetState(v)
    \/ Start
    \/ Stop
    \/ PollTest
    \/ PollGet
    \/ PollSend
    \/ DrawInit
    \/ DrawTest
    \/ DrawPoll
    \/ DrawWait

\* the thread and the process are each scheduled again and again
SpecDraw ==
    Init /\ [][NextDraw]_vars /\ WF_vars(PollStep) /\ WF_vars(DrawStep)

(* ------------------------------------------------------------------ *)
(* Properties of the drawer (specification SpecDraw)                  *)
(* ------------------------------------------------------------------ *)

\* C17: once the running flag has been cleared both loops are left; in
\* particular the polling thread is never blocked in send on a full pipe
\* when the drawing process, the only reader, has left its loop
C17_PollingNeverStuck ==
    ~(/\ ~running
      /\ draw_pc = "exit"
      /\ poll_pc = "send"
      /\ Len(pipe) = PipeCap)

====
